---- MODULE Spec2Model ----
(***************************************************************************)
(* A model of workflow_orchestrator.py: WorkflowState, the three agents    *)
(* (PlannerAgent, ExecutorAgent, ValidatorAgent) and the control flow of   *)
(* WorkflowOrchestrator.execute_workflow, one action per emit / agent call *)
(* of the method.  The external collaborators (the cohere client and the   *)
(* event callback) are nondeterministic: a chat call returns a response or *)
(* throws, the callback returns or raises.                                 *)
(*                                                                         *)
(* Conventions.  A text is a sequence of characters (one-character         *)
(* strings, or one opaque token for a fixed literal).  Confidences are in  *)
(* percent (0.95 is 95).  Python's None is the string "None".  A dict is a *)
(* function whose DOMAIN is the set of its keys.                           *)
(***************************************************************************)
EXTENDS Integers, Sequences, FiniteSets, TLC

\* ---------------------------------------------------------------- bounds
\* Most lines a planner response holds.
MaxLines == 4
\* Longest output the validator is tried on in SpecValidator.
MaxOutputLen == 52
\* Most calls of log_event in SpecLog: enough for the log to be trimmed twice.
MaxLogCalls == 610

\* ------------------------------------------------------ program constants
\* len(output) > 50 (ValidatorAgent.execute)
MinOutputLen == 50
\* base_conf > 0.6 (ValidatorAgent.execute), in percent
MinConfidence == 60
\* result.get("confidence", 0.5), in percent
DefaultConfidence == 50
\* confidence = 0.95 if has_citations else 0.75, in percent
CitedConfidence == 95
UncitedConfidence == 75
\* "confidence": 0.0 of a failed executor result
FailedConfidence == 0
\* complexity = "high" if len(steps) > 3
HighComplexityAbove == 3
\* if len(self.execution_log) >= 500
LogCap == 500
\* self.execution_log = self.execution_log[-400:]
LogKeep == 400

None == "None"

VARIABLES
    pc,                 \* position in execute_workflow
    state,              \* the run's WorkflowState
    steps,              \* plan['steps']
    complexity,         \* plan['complexity']
    i,                  \* the loop's index into steps, from 1
    exec_res,           \* the executor result of the step in hand
    val_res,            \* the validator result of the step in hand
    accumulated_report, \* the sections appended so far
    events,             \* every call of event_callback, in order
    exc,                \* the exception in flight, or None
    plannerFailed,      \* history: the planner's generation call failed
    execHist,           \* history: the executor result of every step executed
    valCalls,           \* history: each validator call, its loop index and verdict
    synthInput,         \* history: the sections given to the synthesis call
    synthOutcome,       \* history: "none" before that call, then "ok" or "throws"
    cbRaises,           \* history: how often event_callback raised
    eventStep,          \* history: the value of i each event was emitted at (0 before the loop)
    reportSteps,        \* history: the loop index each section was appended at
    calls,              \* history: every call of the generation service, in order
    appended,           \* SpecLog: every entry log_event ever appended, in order
    vIn,                \* SpecValidator: the dict given to ValidatorAgent.execute
    vOut                \* SpecValidator: <<>>, then <<what it returned>>

runVars == <<pc, state, steps, complexity, i, exec_res, val_res,
             accumulated_report, events, exc, plannerFailed, execHist,
             valCalls, synthInput, synthOutcome, cbRaises, eventStep,
             reportSteps, calls>>
valVars == <<vIn, vOut>>
logVars == <<appended>>
vars == <<runVars, valVars, logVars>>

\* ------------------------------------------------------------ dict helper
\* dict.get(key, default)
Get(d, key, default) == IF key \in DOMAIN d THEN d[key] ELSE default

\* ------------------------------------------------------------------ texts
Whitespace == {" "}
BulletChars == {"-", " "}

RECURSIVE LStrip(_, _)
LStrip(s, chars) ==
    IF s # <<>> /\ Head(s) \in chars THEN LStrip(Tail(s), chars) ELSE s

RECURSIVE RStrip(_, _)
RStrip(s, chars) ==
    IF s # <<>> /\ s[Len(s)] \in chars
    THEN RStrip(SubSeq(s, 1, Len(s) - 1), chars)
    ELSE s

\* str.strip(chars)
Strip(s, chars) == RStrip(LStrip(s, chars), chars)

\* [s.strip('- ').strip() for s in response.text.split('\n') if s.strip()]
RECURSIVE ParseSteps(_)
ParseSteps(lines) ==
    IF lines = <<>> THEN <<>>
    ELSE IF Strip(Head(lines), Whitespace) # <<>>
         THEN <<Strip(Strip(Head(lines), BulletChars), Whitespace)>>
              \o ParseSteps(Tail(lines))
         ELSE ParseSteps(Tail(lines))

\* ----------------------------------------------------------- PlannerAgent
\* Mutant of FallbackSteps: the last step is missing.
FallbackStepsShort ==
    << <<"Research the topic overview">>,
       <<"Analyze key trends and data">> >>

\* steps = ["Research the topic overview", "Analyze key trends and data",
\*          "Synthesize findings"] of the except branch
FallbackSteps ==
    << <<"Research the topic overview">>,
       <<"Analyze key trends and data">>,
       <<"Synthesize findings">> >>

ComplexityOf(n) == IF n > HighComplexityAbove THEN "high" ELSE "medium"

\* The k-th line of a planner response, when it is not blank: a step, bulleted
\* ("- A") on odd lines and followed by a space ("B ") on even ones.
StepLetter(k) == <<"A", "B", "C", "D", "E", "F", "G", "H">>[k]
ResponseLine(k) ==
    IF k % 2 = 1 THEN <<"-", " ", StepLetter(k)>> ELSE <<StepLetter(k), " ">>

\* response.text.split('\n') of the responses tried: up to MaxLines lines, each
\* blank or a step.
PlannerTexts ==
    UNION { { [k \in 1..n |-> IF k \in P THEN ResponseLine(k) ELSE <<>>] :
              P \in SUBSET (1..n) } : n \in 0..MaxLines }

\* What self.co.chat gives the planner: it throws, or it returns a response
\* whose text is None (response.text.split then throws inside the try), or a
\* response whose text is these lines.
PlannerOutcomes ==
    { [kind |-> "throws", lines |-> <<>>], [kind |-> "none", lines |-> <<>>] }
    \cup { [kind |-> "text", lines |-> t] : t \in PlannerTexts }

PlannerCallFails(outcome) == outcome.kind # "text"

PlannerExecute(outcome) ==
    IF PlannerCallFails(outcome)
    THEN [steps |-> FallbackSteps, complexity |-> "medium", output_type |-> "plan"]
    ELSE LET parsed == ParseSteps(outcome.lines)
         IN  [steps |-> parsed, complexity |-> ComplexityOf(Len(parsed)),
              output_type |-> "plan"]

\* ---------------------------------------------------------- ExecutorAgent
\* An output text is known by its length; isStr is FALSE for a response whose
\* text is None.
Text(n) == [isStr |-> TRUE, len |-> n]
NoText == [isStr |-> FALSE, len |-> 0]

\* str(e): the description of an error, a text.
ErrorText == Text(MinOutputLen + 1)

\* What self.co.chat gives the executor: it throws, or it returns a response
\* with this text (of length 50 or 51, or None) and with this citations
\* attribute: absent, None, an empty list or a list of one citation.
ExecutorOutcomes ==
    { [kind |-> "throws", text |-> NoText, citations |-> "absent"] }
    \cup { [kind |-> "response", text |-> t, citations |-> c] :
             t \in { Text(MinOutputLen), Text(MinOutputLen + 1) },
             c \in { "absent", "None", "empty", "some" } }
    \cup { [kind |-> "response", text |-> NoText, citations |-> "empty"] }

\* The call throws, or len(response.citations) does (citations is None):
\* either way inside the try.
ExecutorCallFails(outcome) ==
    outcome.kind = "throws" \/ outcome.citations = "None"

ExecutorExecute(outcome) ==
    IF ExecutorCallFails(outcome)
    THEN [status |-> "failed", output |-> ErrorText,
          confidence |-> FailedConfidence]
    ELSE LET has_citations == outcome.citations = "some"
         IN  [status |-> "success", output |-> outcome.text,
              confidence |-> IF has_citations THEN CitedConfidence
                             ELSE UncitedConfidence,
              citations |-> IF has_citations THEN <<"citation">> ELSE <<>>]

\* --------------------------------------------------------- ValidatorAgent
\* len(result.get("output", "")) raises TypeError when the output is None.
ValidatorRaises(result) == ~ Get(result, "output", Text(0)).isStr

\* Mutant of IsValid: the comparisons are not strict.
IsValidInclusive(output_len, base_conf) ==
    output_len >= MinOutputLen /\ base_conf >= MinConfidence

\* is_valid = output_len > 50 and base_conf > 0.6
IsValid(output_len, base_conf) ==
    output_len > MinOutputLen /\ base_conf > MinConfidence

ValidatorExecute(result) ==
    LET output_len == Get(result, "output", Text(0)).len
        base_conf  == Get(result, "confidence", DefaultConfidence)
        is_valid   == IsValid(output_len, base_conf)
    IN  [is_valid |-> is_valid, confidence |-> base_conf,
         feedback |-> IF is_valid THEN "Content verified successfully."
                      ELSE "Content too short or lacks citations."]

\* ---------------------------------------------------------- WorkflowState
\* WorkflowState(workflow_id, task, WorkflowStatus.PENDING) with the
\* dataclass defaults of the other fields.
NewWorkflowState ==
    [status |-> "pending", current_step |-> 0, total_steps |-> 0,
     steps_completed |-> <<>>, execution_log |-> <<>>,
     start_time |-> None, end_time |-> None]

\* WorkflowState.get_execution_time: a duration once both times are set.
get_execution_time(st) ==
    IF st.start_time # None /\ st.end_time # None THEN "duration" ELSE None

\* Mutant of LogFull: the comparison is strict.
LogFullStrict(log) == Len(log) > LogCap

\* len(self.execution_log) >= 500
LogFull(log) == Len(log) >= LogCap

\* Mutant of LastEntries: log[:n], the oldest n entries.
FirstEntries(log, n) ==
    IF Len(log) <= n THEN log ELSE SubSeq(log, 1, n)

\* log[-n:], the newest n entries
LastEntries(log, n) ==
    IF Len(log) <= n THEN log ELSE SubSeq(log, Len(log) - n + 1, Len(log))

\* The data argument of log_event: None, or a dict known by its keys.
NoData == [isNone |-> TRUE, keys |-> {}]
Data(keys) == [isNone |-> FALSE, keys |-> keys]

\* {"timestamp": datetime.now().isoformat(), "event_type": event_type,
\*  "message": message, "data": data or {}}
LogEntry(now, event_type, message, data) ==
    [timestamp |-> now, event_type |-> event_type, message |-> message,
     data |-> IF data.isNone \/ data.keys = {} THEN {} ELSE data.keys]

\* WorkflowState.log_event, at time now
log_event(st, now, event_type, message, data) ==
    LET kept == IF LogFull(st.execution_log)
                THEN LastEntries(st.execution_log, LogKeep)
                ELSE st.execution_log
    IN  [st EXCEPT !.execution_log =
                       Append(kept, LogEntry(now, event_type, message, data))]

\* --------------------------------------------------- WorkflowOrchestrator
\* event_callback(type_, {"msg": msg, "role": role, "node": node})
Event(type, msg, role, node) ==
    [type |-> type, payload |-> [msg |-> msg, role |-> role, node |-> node]]

\* One call of self.co.chat: by the planner, by the executor for the step at
\* this loop index, or for the synthesis.
Call(agent, k) == [agent |-> agent, step |-> k]

\* The call of event_callback inside emit: the callback is given the event,
\* and returns or raises.
Emit(ev, raises) ==
    /\ events' = Append(events, ev)
    /\ eventStep' = Append(eventStep, IF pc \in {"start", "planner", "planlog"}
                                      THEN 0 ELSE i)
    /\ cbRaises' = cbRaises + (IF raises THEN 1 ELSE 0)

\* An exception leaves the try block for the except clause.
Throw(kind) ==
    /\ pc' = "except"
    /\ exc' = kind

\* Mutant of StepFailed: the failed status is never recognised.
StepFailedNever(res) == FALSE

\* if exec_res['status'] == 'failed'
StepFailed(res) == res.status = "failed"

\* Mutant of VerdictRole: the verdict is ignored.
VerdictRoleAlwaysSuccess(val) == "success"

\* The role of the log event that follows the quality gate.
VerdictRole(val) == IF val.is_valid THEN "success" ELSE "warning"

\* f"### {step}\n{exec_res['output']}\n"
Section(step, res) == [heading |-> step, output |-> res.output]

\* emit('status', ..., node='start'); state.start_time = datetime.now()
Start ==
    /\ pc = "start"
    /\ \E raises \in BOOLEAN :
          /\ Emit(Event("status", [text |-> "System Initialized."], "info", "start"),
                  raises)
          /\ IF raises
             THEN Throw("callback") /\ UNCHANGED state
             ELSE /\ state' = [state EXCEPT !.start_time = "now"]
                  /\ pc' = "planner"
                  /\ UNCHANGED exc
    /\ UNCHANGED <<steps, complexity, i, exec_res, val_res, accumulated_report,
                   plannerFailed, execHist, valCalls, synthInput, synthOutcome,
                   reportSteps, valVars, logVars, calls>>

\* emit('activate', ..., node='planner'); plan = planner.execute(task, {});
\* steps = plan['steps']; state.total_steps = len(steps)
Planning ==
    /\ pc = "planner"
    /\ \E raises \in BOOLEAN :
          /\ Emit(Event("activate", [text |-> "Analyzing Task Strategy..."],
                        "info", "planner"), raises)
          /\ IF raises
             THEN /\ Throw("callback")
                  /\ UNCHANGED <<state, steps, complexity, plannerFailed, calls>>
             ELSE \E outcome \in PlannerOutcomes :
                    LET plan == PlannerExecute(outcome)
                    IN  /\ steps' = plan.steps
                        /\ complexity' = plan.complexity
                        /\ plannerFailed' = PlannerCallFails(outcome)
                        /\ calls' = Append(calls, Call("planner", 0))
                        /\ state' = [state EXCEPT !.total_steps = Len(plan.steps)]
                        /\ pc' = "planlog"
                        /\ UNCHANGED exc
    /\ UNCHANGED <<i, exec_res, val_res, accumulated_report, execHist, valCalls,
                   synthInput, synthOutcome, reportSteps, valVars, logVars>>

\* emit('log', f"Strategy formed with {len(steps)} phases.", role='planner');
\* accumulated_report = []; the loop starts
PlanLog ==
    /\ pc = "planlog"
    /\ \E raises \in BOOLEAN :
          /\ Emit(Event("log", [text |-> "Strategy formed", phases |-> Len(steps)],
                        "planner", None), raises)
          /\ IF raises
             THEN Throw("callback") /\ UNCHANGED <<i, accumulated_report>>
             ELSE /\ accumulated_report' = <<>>
                  /\ i' = 1
                  /\ pc' = "loop"
                  /\ UNCHANGED exc
    /\ UNCHANGED <<state, steps, complexity, exec_res, val_res, plannerFailed,
                   execHist, valCalls, synthInput, synthOutcome, reportSteps,
                   valVars, logVars, calls>>

\* emit('activate', f"Executing: {step}", node='executor');
\* exec_res = executor.execute(step, {})
ExecuteStep ==
    /\ pc = "loop"
    /\ i <= Len(steps)
    /\ \E raises \in BOOLEAN :
          /\ Emit(Event("activate", [text |-> "Executing", step |-> steps[i]],
                        "info", "executor"), raises)
          /\ IF raises
             THEN Throw("callback") /\ UNCHANGED <<exec_res, execHist, calls>>
             ELSE \E outcome \in ExecutorOutcomes :
                    LET res == ExecutorExecute(outcome)
                    IN  /\ exec_res' = res
                        /\ execHist' = Append(execHist, res)
                        /\ calls' = Append(calls, Call("executor", i))
                        /\ pc' = IF StepFailed(res) THEN "stepfailed" ELSE "validate"
                        /\ UNCHANGED exc
    /\ UNCHANGED <<state, steps, complexity, i, val_res, accumulated_report,
                   plannerFailed, valCalls, synthInput, synthOutcome, reportSteps,
                   valVars, logVars>>

\* Mutant of SkipFailedStep: break instead of continue.
SkipFailedStepBreaks ==
    /\ pc = "stepfailed"
    /\ \E raises \in BOOLEAN :
          /\ Emit(Event("log", [text |-> "Step failed", output |-> exec_res.output],
                        "error", None), raises)
          /\ IF raises
             THEN Throw("callback") /\ UNCHANGED i
             ELSE /\ i' = Len(steps) + 1
                  /\ pc' = "loop"
                  /\ UNCHANGED exc
    /\ UNCHANGED <<state, steps, complexity, exec_res, val_res, accumulated_report,
                   plannerFailed, execHist, valCalls, synthInput, synthOutcome,
                   reportSteps, valVars, logVars, calls>>

\* Mutant of SkipFailedStep: the continue is missing, the step goes on to the
\* validator.
SkipFailedStepFallsThrough ==
    /\ pc = "stepfailed"
    /\ \E raises \in BOOLEAN :
          /\ Emit(Event("log", [text |-> "Step failed", output |-> exec_res.output],
                        "error", None), raises)
          /\ IF raises
             THEN Throw("callback")
             ELSE pc' = "validate" /\ UNCHANGED exc
    /\ UNCHANGED <<state, steps, complexity, i, exec_res, val_res,
                   accumulated_report, plannerFailed, execHist, valCalls,
                   synthInput, synthOutcome, reportSteps, valVars, logVars, calls>>

\* Mutant of SkipFailedStep: after the error log the loop stays on the failed
\* step, so the executor is called on it again.
SkipFailedStepRetries ==
    /\ pc = "stepfailed"
    /\ \E raises \in BOOLEAN :
          /\ Emit(Event("log", [text |-> "Step failed", output |-> exec_res.output],
                        "error", None), raises)
          /\ IF raises
             THEN Throw("callback") /\ UNCHANGED i
             ELSE /\ i' = i
                  /\ pc' = "loop"
                  /\ UNCHANGED exc
    /\ UNCHANGED <<state, steps, complexity, exec_res, val_res, accumulated_report,
                   plannerFailed, execHist, valCalls, synthInput, synthOutcome,
                   reportSteps, valVars, logVars, calls>>

\* emit('log', f"Step failed: {exec_res['output']}", role='error'); continue
SkipFailedStep ==
    /\ pc = "stepfailed"
    /\ \E raises \in BOOLEAN :
          /\ Emit(Event("log", [text |-> "Step failed", output |-> exec_res.output],
                        "error", None), raises)
          /\ IF raises
             THEN Throw("callback") /\ UNCHANGED i
             ELSE /\ i' = i + 1
                  /\ pc' = "loop"
                  /\ UNCHANGED exc
    /\ UNCHANGED <<state, steps, complexity, exec_res, val_res, accumulated_report,
                   plannerFailed, execHist, valCalls, synthInput, synthOutcome,
                   reportSteps, valVars, logVars, calls>>

\* What one validator call was given and did.
ValidatorCall(k, res) ==
    [step |-> k,
     verdict |-> IF ValidatorRaises(res) THEN "raised"
                 ELSE IF ValidatorExecute(res).is_valid THEN "valid"
                 ELSE "invalid"]

\* emit('activate', ..., node='validator');
\* val_res = validator.execute(exec_res, {})
Validate ==
    /\ pc = "validate"
    /\ \E raises \in BOOLEAN :
          /\ Emit(Event("activate", [text |-> "Verifying Data Integrity..."],
                        "info", "validator"), raises)
          /\ IF raises
             THEN Throw("callback") /\ UNCHANGED <<val_res, valCalls>>
             ELSE /\ valCalls' = Append(valCalls, ValidatorCall(i, exec_res))
                  /\ IF ValidatorRaises(exec_res)
                     THEN Throw("validator") /\ UNCHANGED val_res
                     ELSE /\ val_res' = ValidatorExecute(exec_res)
                          /\ pc' = "decision"
                          /\ UNCHANGED exc
    /\ UNCHANGED <<state, steps, complexity, i, exec_res, accumulated_report,
                   plannerFailed, execHist, synthInput, synthOutcome, reportSteps,
                   valVars, logVars, calls>>

\* emit('activate', 'Quality Gate Decision', node='decision')
Decision ==
    /\ pc = "decision"
    /\ \E raises \in BOOLEAN :
          /\ Emit(Event("activate", [text |-> "Quality Gate Decision"],
                        "info", "decision"), raises)
          /\ IF raises
             THEN Throw("callback")
             ELSE pc' = "verdict" /\ UNCHANGED exc
    /\ UNCHANGED <<state, steps, complexity, i, exec_res, val_res,
                   accumulated_report, plannerFailed, execHist, valCalls,
                   synthInput, synthOutcome, reportSteps, valVars, logVars, calls>>

\* Mutant of Verdict: a step the validator judged invalid gets its warning
\* but no section in the report.
VerdictDropsInvalid ==
    /\ pc = "verdict"
    /\ \E raises \in BOOLEAN :
          /\ Emit(Event("log",
                        IF val_res.is_valid
                        THEN [text |-> "Phase Verified", phase |-> i,
                              confidence |-> exec_res.confidence]
                        ELSE [text |-> "Quality Warning",
                              feedback |-> val_res.feedback],
                        VerdictRole(val_res), None), raises)
          /\ IF raises
             THEN Throw("callback") /\ UNCHANGED <<i, accumulated_report, reportSteps>>
             ELSE /\ accumulated_report' =
                       IF val_res.is_valid
                       THEN Append(accumulated_report, Section(steps[i], exec_res))
                       ELSE accumulated_report
                  /\ reportSteps' =
                       IF val_res.is_valid THEN Append(reportSteps, i)
                       ELSE reportSteps
                  /\ i' = i + 1
                  /\ pc' = "loop"
                  /\ UNCHANGED exc
    /\ UNCHANGED <<state, steps, complexity, exec_res, val_res, plannerFailed,
                   execHist, valCalls, synthInput, synthOutcome, valVars, logVars, calls>>

\* if val_res['is_valid']: emit('log', ..., role='success') else:
\* emit('log', ..., role='warning'); either way
\* accumulated_report.append(f"### {step}\n{exec_res['output']}\n")
Verdict ==
    /\ pc = "verdict"
    /\ \E raises \in BOOLEAN :
          /\ Emit(Event("log",
                        IF val_res.is_valid
                        THEN [text |-> "Phase Verified", phase |-> i,
                              confidence |-> exec_res.confidence]
                        ELSE [text |-> "Quality Warning",
                              feedback |-> val_res.feedback],
                        VerdictRole(val_res), None), raises)
          /\ IF raises
             THEN Throw("callback") /\ UNCHANGED <<i, accumulated_report, reportSteps>>
             ELSE /\ accumulated_report' =
                       Append(accumulated_report, Section(steps[i], exec_res))
                  /\ reportSteps' = Append(reportSteps, i)
                  /\ i' = i + 1
                  /\ pc' = "loop"
                  /\ UNCHANGED exc
    /\ UNCHANGED <<state, steps, complexity, exec_res, val_res, plannerFailed,
                   execHist, valCalls, synthInput, synthOutcome, valVars, logVars, calls>>

\* emit('activate', ..., node='end'); full_context = "\n".join(...);
\* final_response = self.co.chat(message=final_prompt, ...)
Synthesize ==
    /\ pc = "loop"
    /\ i > Len(steps)
    /\ \E raises \in BOOLEAN :
          /\ Emit(Event("activate",
                        [text |-> "Synthesizing Final Intelligence Report..."],
                        "info", "end"), raises)
          /\ IF raises
             THEN Throw("callback") /\ UNCHANGED <<synthInput, synthOutcome, calls>>
             ELSE /\ synthInput' = accumulated_report
                  /\ calls' = Append(calls, Call("synthesis", 0))
                  /\ \E ok \in BOOLEAN :
                        IF ok
                        THEN /\ synthOutcome' = "ok"
                             /\ pc' = "finish"
                             /\ UNCHANGED exc
                        ELSE /\ synthOutcome' = "throws"
                             /\ Throw("synthesis")
    /\ UNCHANGED <<state, steps, complexity, i, exec_res, val_res,
                   accumulated_report, plannerFailed, execHist, valCalls,
                   reportSteps, valVars, logVars>>

\* Mutant of Finish: the finish event is emitted and the status is left as
\* it was.
FinishLeavesStatus ==
    /\ pc = "finish"
    /\ \E raises \in BOOLEAN :
          /\ Emit(Event("finish", [report |-> "final_response.text"], "info", None),
                  raises)
          /\ IF raises
             THEN Throw("callback") /\ UNCHANGED state
             ELSE /\ state' = state
                  /\ pc' = "returned"
                  /\ UNCHANGED exc
    /\ UNCHANGED <<steps, complexity, i, exec_res, val_res, accumulated_report,
                   plannerFailed, execHist, valCalls, synthInput, synthOutcome,
                   reportSteps, valVars, logVars, calls>>

\* emit('finish', {'report': final_response.text});
\* state.status = WorkflowStatus.COMPLETED
Finish ==
    /\ pc = "finish"
    /\ \E raises \in BOOLEAN :
          /\ Emit(Event("finish", [report |-> "final_response.text"], "info", None),
                  raises)
          /\ IF raises
             THEN Throw("callback") /\ UNCHANGED state
             ELSE /\ state' = [state EXCEPT !.status = "completed"]
                  /\ pc' = "returned"
                  /\ UNCHANGED exc
    /\ UNCHANGED <<steps, complexity, i, exec_res, val_res, accumulated_report,
                   plannerFailed, execHist, valCalls, synthInput, synthOutcome,
                   reportSteps, valVars, logVars, calls>>

\* except Exception as e: emit('log', f"Critical System Failure: {str(e)}",
\* role='error'); state.status = WorkflowStatus.FAILED.  When the callback
\* raises here, nothing catches it: execute_workflow raises to its caller and
\* the assignment of FAILED is not reached.
Except ==
    /\ pc = "except"
    /\ \E raises \in BOOLEAN :
          /\ Emit(Event("log", [text |-> "Critical System Failure", error |-> exc],
                        "error", None), raises)
          /\ IF raises
             THEN /\ pc' = "raised"
                  /\ exc' = "callback"
                  /\ UNCHANGED state
             ELSE /\ state' = [state EXCEPT !.status = "failed"]
                  /\ pc' = "returned"
                  /\ exc' = None
    /\ UNCHANGED <<steps, complexity, i, exec_res, val_res, accumulated_report,
                   plannerFailed, execHist, valCalls, synthInput, synthOutcome,
                   reportSteps, valVars, logVars, calls>>

\* The state on entry to execute_workflow: a new WorkflowState, no event yet.
InitRun ==
    /\ pc = "start"
    /\ state = NewWorkflowState
    /\ steps = <<>>
    /\ complexity = None
    /\ i = 0
    /\ exec_res = None
    /\ val_res = None
    /\ accumulated_report = <<>>
    /\ events = <<>>
    /\ exc = None
    /\ plannerFailed = FALSE
    /\ execHist = <<>>
    /\ valCalls = <<>>
    /\ synthInput = <<>>
    /\ synthOutcome = "none"
    /\ cbRaises = 0
    /\ eventStep = <<>>
    /\ reportSteps = <<>>
    /\ calls = <<>>

Init ==
    /\ InitRun
    /\ appended = <<>>
    /\ vIn = None
    /\ vOut = <<>>

Next ==
    \/ Start
    \/ Planning
    \/ PlanLog
    \/ ExecuteStep
    \/ SkipFailedStep
    \/ Validate
    \/ Decision
    \/ Verdict
    \/ Synthesize
    \/ Finish
    \/ Except

Spec == Init /\ [][Next]_vars

\* ------------------------------------- ValidatorAgent.execute on its own
\* The dicts ValidatorAgent.execute is tried on: an output of every length up
\* to MaxOutputLen, or None, or no "output" key; a confidence or no
\* "confidence" key.
ValidatorConfidences ==
    { FailedConfidence, DefaultConfidence, MinConfidence, MinConfidence + 1,
      UncitedConfidence, CitedConfidence, 100 }

ValidatorInputs ==
    { [output |-> Text(n), confidence |-> c] :
        n \in 0..MaxOutputLen, c \in ValidatorConfidences }
    \cup { [output |-> NoText, confidence |-> c] : c \in ValidatorConfidences }
    \cup { [output |-> Text(n)] : n \in 0..MaxOutputLen }
    \cup { [confidence |-> c] : c \in ValidatorConfidences }

InitValidator ==
    /\ InitRun
    /\ appended = <<>>
    /\ vIn \in ValidatorInputs
    /\ vOut = <<>>

\* val_res = validator.execute(result, {}): a result, or the TypeError raised
CallValidator ==
    /\ vOut = <<>>
    /\ vOut' = IF ValidatorRaises(vIn) THEN <<"TypeError">>
               ELSE <<ValidatorExecute(vIn)>>
    /\ UNCHANGED <<vIn, runVars, logVars>>

SpecValidator == InitValidator /\ [][CallValidator]_vars

\* ------------------------------------------ stream_workflow (app.py)
\* generate() of stream_workflow does not call execute_workflow: it drives
\* the agents itself and yields one JSON dict per progress point.  What it
\* yields is a function of what the agents and the synthesis call give it.

\* The dicts yielded for one step whose executor result is res: the
\* validator is called on every result, failed or not, and when it raises
\* the generator ends there.
StreamStepEvents(step, res) ==
    << [type |-> "activate", node |-> "executor",
        msg |-> [text |-> "Researching", step |-> step]],
       [type |-> "activate", node |-> "validator",
        msg |-> [text |-> "Verifying sources..."]] >>
    \o IF ValidatorRaises(res) THEN <<>>
       ELSE << [type |-> "activate", node |-> "decision",
                msg |-> [text |-> "Quality Gate"]],
               IF ValidatorExecute(res).is_valid
               THEN [type |-> "log", role |-> "success",
                     msg |-> [text |-> "Validated",
                              citations |-> Len(Get(res, "citations", <<>>))]]
               ELSE [type |-> "log", role |-> "warning",
                     msg |-> [text |-> "Low confidence data."]] >>

\* for i, step in enumerate(steps): ..., from step k on
RECURSIVE StreamLoop(_, _, _)
StreamLoop(plan, results, k) ==
    IF k > Len(plan) THEN [events |-> <<>>, raised |-> FALSE]
    ELSE IF ValidatorRaises(results[k])
         THEN [events |-> StreamStepEvents(plan[k], results[k]), raised |-> TRUE]
         ELSE LET rest == StreamLoop(plan, results, k + 1)
              IN  [events |-> StreamStepEvents(plan[k], results[k]) \o rest.events,
                   raised |-> rest.raised]

\* Everything generate() yields, for this plan, these executor results and
\* this outcome of the synthesis call; nothing in it catches an exception.
StreamEvents(plan, results, synthOk) ==
    LET loop == StreamLoop(plan, results, 1)
    IN  << [type |-> "status", node |-> "start",
            msg |-> [text |-> "Connecting to Neural Network..."]],
           [type |-> "activate", node |-> "planner",
            msg |-> [text |-> "Planner: Analyzing complexity..."]],
           [type |-> "log", role |-> "planner",
            msg |-> [text |-> "Strategized", steps |-> Len(plan)]] >>
        \o loop.events
        \o IF loop.raised THEN <<>>
           ELSE << [type |-> "activate", node |-> "end",
                    msg |-> [text |-> "Generating Final Report..."]] >>
                \o IF synthOk
                   THEN << [type |-> "finish", report |-> "final_report"] >>
                   ELSE <<>>

\* ------------------------------------------ WorkflowState.log_event alone
\* The arguments of the n-th call of log_event: the event types in turn, a
\* data dict on every third call, an empty one or None on the others.
LogCallArgs(n) ==
    [event_type |-> <<"info", "warning", "error", "success">>[(n % 4) + 1],
     message |-> "message",
     data |-> <<NoData, Data({}), Data({"step"})>>[(n % 3) + 1]]

\* state.log_event(event_type, message, data); datetime.now() is the n-th
\* reading of a clock that moves on between two calls.
CallLogEvent ==
    /\ Len(appended) < MaxLogCalls
    /\ LET n == Len(appended) + 1
           a == LogCallArgs(n)
           st == log_event(state, n, a.event_type, a.message, a.data)
       IN  /\ state' = st
           /\ appended' = Append(appended,
                                 st.execution_log[Len(st.execution_log)])
    /\ UNCHANGED <<pc, steps, complexity, i, exec_res, val_res,
                   accumulated_report, events, exc, plannerFailed, execHist,
                   valCalls, synthInput, synthOutcome, cbRaises, eventStep,
                   reportSteps, calls, valVars>>

SpecLog == Init /\ [][CallLogEvent]_vars

\* ================================================================ claims
\* What the claims read off a run.
Terminal == pc \in {"returned", "raised"}

Shape(e) == <<e.type, e.payload.node, e.payload.role>>
Shapes(evs) == [k \in 1..Len(evs) |-> Shape(evs[k])]

IsActivate(e, node) == e.type = "activate" /\ e.payload.node = node
IsLog(e, role) == e.type = "log" /\ e.payload.role = role
IsCriticalLog(e) ==
    IsLog(e, "error") /\ e.payload.msg.text = "Critical System Failure"
IsFinish(e) == e.type = "finish"

\* The positions of the events of loop index k.
EventsOfStep(k) == { j \in 1..Len(events) : eventStep[j] = k }

NumActivate(node) ==
    Cardinality({ j \in 1..Len(events) : IsActivate(events[j], node) })
NumCriticalLogs ==
    Cardinality({ j \in 1..Len(events) : IsCriticalLog(events[j]) })
NumFinish == Cardinality({ j \in 1..Len(events) : IsFinish(events[j]) })
NumNotFailed ==
    Cardinality({ k \in 1..Len(execHist) : execHist[k].status # "failed" })

\* The verdict of the validator call on loop index k.
VerdictOf(k) ==
    IF \E c \in 1..Len(valCalls) : valCalls[c].step = k
    THEN valCalls[CHOOSE c \in 1..Len(valCalls) : valCalls[c].step = k].verdict
    ELSE "not called"

AllStepsSucceeded ==
    /\ Len(execHist) = Len(steps)
    /\ \A k \in 1..Len(steps) : execHist[k].status = "success"

RECURSIVE ExpectedStepEvents(_)
ExpectedStepEvents(k) ==
    IF k = 0 THEN <<>>
    ELSE ExpectedStepEvents(k - 1) \o
         << <<"activate", "executor", "info">>,
            <<"activate", "validator", "info">>,
            <<"activate", "decision", "info">>,
            <<"log", None, IF VerdictOf(k) = "valid" THEN "success" ELSE "warning">> >>

ExpectedEvents ==
    << <<"status", "start", "info">>,
       <<"activate", "planner", "info">>,
       <<"log", None, "planner">> >>
    \o ExpectedStepEvents(Len(steps))
    \o << <<"activate", "end", "info">>, <<"finish", None, "info">> >>

\* C1 as claimed: a run whose executor calls all return success and whose
\* synthesis call succeeds gives the callback exactly status(start),
\* activate(planner), log(planner), then per step activate(executor),
\* activate(validator), activate(decision), log(success | warning), then
\* activate(end), finish, and ends Completed.  (Fails: the callback may raise
\* on the finish event.)
C1_AsClaimed ==
    (Terminal /\ AllStepsSucceeded /\ synthOutcome = "ok")
    => (Shapes(events) = ExpectedEvents /\ state.status = "completed")

\* C1, amended: the same, for a run in which the event callback raises on no
\* event.
C1_HappyPathEvents ==
    (Terminal /\ AllStepsSucceeded /\ synthOutcome = "ok" /\ cbRaises = 0)
    => (Shapes(events) = ExpectedEvents /\ state.status = "completed")

C1_Witness ==
    /\ Terminal /\ AllStepsSucceeded /\ synthOutcome = "ok" /\ cbRaises = 0
    /\ Len(steps) >= 2
    /\ VerdictOf(1) = "valid"
    /\ VerdictOf(2) = "invalid"

\* C2: in every state of every run, a step whose executor result is failed
\* has had no validator call, has no section in the report, and its heading
\* is not in the input of the synthesis call.
C2_FailedStepExcluded ==
    \A k \in 1..Len(execHist) :
        execHist[k].status = "failed" =>
            /\ VerdictOf(k) = "not called"
            /\ \A j \in 1..Len(reportSteps) : reportSteps[j] # k
            /\ \A j \in 1..Len(accumulated_report) :
                   accumulated_report[j].heading # steps[k]
            /\ \A j \in 1..Len(synthInput) : synthInput[j].heading # steps[k]

C2_Witness ==
    /\ synthOutcome = "ok"
    /\ Len(synthInput) >= 1
    /\ \E k \in 1..Len(execHist) : execHist[k].status = "failed"

\* What C3 says of a step whose executor call threw.
FailedStepHandled(k) ==
    /\ Cardinality({ j \in EventsOfStep(k) : IsLog(events[j], "error") }) = 1
    /\ \A j \in EventsOfStep(k) :
           /\ ~ IsActivate(events[j], "validator")
           /\ ~ IsActivate(events[j], "decision")

C3_Conclusion ==
    /\ Len(execHist) = Len(steps)
    /\ \A k \in 1..Len(execHist) :
           execHist[k].status = "failed" => FailedStepHandled(k)
    /\ NumActivate("executor") = Len(steps)
    /\ NumFinish = 1
    /\ state.status = "completed"

\* C3 as claimed: when executor calls throw and the synthesis call succeeds,
\* each such step gives one error log and no validator or decision event,
\* every later step is executed, finish is emitted and the run ends
\* Completed.  (Fails: the callback may raise on the finish event.)
C3_AsClaimed ==
    (Terminal /\ synthOutcome = "ok") => C3_Conclusion

\* C3, amended: the same, for a run in which the event callback raises on no
\* event.
C3_FailedStepNotFatal ==
    (Terminal /\ synthOutcome = "ok" /\ cbRaises = 0) => C3_Conclusion

C3_Witness ==
    /\ Terminal /\ synthOutcome = "ok" /\ cbRaises = 0
    /\ Len(execHist) >= 3
    /\ execHist[1].status = "failed"
    /\ execHist[2].status = "success"
    /\ execHist[3].status = "failed"

\* C4 as claimed: when the synthesis call throws, the run ends Failed, with
\* exactly one critical-failure log event, emitted after activate(end), and
\* no finish event.
C4_AsClaimed ==
    (Terminal /\ synthOutcome = "throws") =>
        /\ state.status = "failed"
        /\ NumCriticalLogs = 1
        /\ NumFinish = 0
        /\ \E a \in 1..Len(events) :
               /\ IsActivate(events[a], "end")
               /\ \A j \in 1..Len(events) : IsCriticalLog(events[j]) => j > a

\* C5 as claimed: an exception no agent absorbed (the handler emits its
\* critical-failure log for each) is caught once: the status is Failed, one
\* critical-failure log event is emitted, and execute_workflow returns
\* without raising.
C5_AsClaimed ==
    (Terminal /\ NumCriticalLogs >= 1) =>
        /\ pc = "returned"
        /\ state.status = "failed"
        /\ NumCriticalLogs = 1

\* C6 as claimed: the status changes only Pending -> InProgress ->
\* {Completed, Failed}, and the run enters InProgress in the step that sets
\* start_time.
C6_AsClaimed ==
    [][ /\ state'.status # state.status =>
              <<state.status, state'.status>> \in
                  { <<"pending", "in_progress">>,
                    <<"in_progress", "completed">>,
                    <<"in_progress", "failed">> }
        /\ (state.start_time = None /\ state'.start_time # None) =>
              state'.status = "in_progress" ]_vars

\* C7 as claimed: once the status is Completed or Failed, end_time and
\* start_time are set and get_execution_time returns a value.
C7_AsClaimed ==
    state.status \in {"completed", "failed"} =>
        /\ state.end_time # None
        /\ state.start_time # None
        /\ get_execution_time(state) # None

\* The plan is made: Planning has set plan['complexity'].
Planned == complexity # None

\* The loop has processed every step of the plan.
LoopDone == Planned /\ i = Len(steps) + 1

\* C8 as claimed: a run whose plan has N steps emits exactly N
\* activate(executor) events, at most N activate(decision) events, and as
\* many activate(decision) events as steps whose executor result is not
\* failed.  (Fails: a critical failure inside the loop ends it early.)
C8_AsClaimed ==
    (Terminal /\ Planned) =>
        /\ NumActivate("executor") = Len(steps)
        /\ NumActivate("decision") <= Len(steps)
        /\ NumActivate("decision") = NumNotFailed

\* C8, amended: a run whose plan has N steps emits at most N
\* activate(executor) and at most N activate(decision) events, never more
\* activate(decision) events than steps whose executor result is not failed;
\* once the loop has processed every step, exactly N activate(executor)
\* events and as many activate(decision) events as steps whose executor
\* result is not failed.
C8_StepEventCounts ==
    /\ NumActivate("executor") <= Len(steps)
    /\ NumActivate("decision") <= Len(steps)
    /\ NumActivate("decision") <= NumNotFailed
    /\ LoopDone =>
          /\ NumActivate("executor") = Len(steps)
          /\ NumActivate("decision") = NumNotFailed

C8_Witness ==
    /\ Terminal /\ LoopDone
    /\ Len(steps) = 3
    /\ NumActivate("executor") = 3
    /\ NumActivate("decision") = 2

\* C9: when the planner's generation call fails, the plan is the fixed three
\* steps with complexity medium, total_steps is 3, and the run goes on from
\* Planning to its log event with no exception in flight.
C9_PlannerFallback ==
    plannerFailed =>
        /\ steps = << <<"Research the topic overview">>,
                      <<"Analyze key trends and data">>,
                      <<"Synthesize findings">> >>
        /\ complexity = "medium"
        /\ state.total_steps = 3
        /\ Len(events) = 2 => (pc = "planlog" /\ exc = None)

C9_Witness ==
    /\ plannerFailed
    /\ pc = "returned"
    /\ state.status = "completed"
    /\ Len(execHist) = 3

\* An executor result: a dict with a confidence and an output text.
IsExecutorResult(d) ==
    {"output", "confidence"} \subseteq DOMAIN d /\ d.output.isStr

\* C10: for an executor result (a dict with an output text and a
\* confidence), ValidatorAgent.execute returns is_valid exactly when the
\* output is longer than 50 and the confidence is above 0.6, an output of
\* length 50 is invalid, and the returned confidence is the input's.
C10_ValidatorRule ==
    (vOut # <<>> /\ IsExecutorResult(vIn)) =>
        /\ vOut[1].is_valid <=> (vIn.output.len > 50 /\ vIn.confidence > 60)
        /\ vIn.output.len = 50 => ~ vOut[1].is_valid
        /\ vOut[1].confidence = vIn.confidence

C10_Witness ==
    /\ vOut # <<>>
    /\ IsExecutorResult(vIn)
    /\ vIn.output.len = 50
    /\ vIn.confidence = 95
    /\ ~ vOut[1].is_valid

\* C11: a log_event call never leaves more than 500 entries in the log; made
\* at 500 entries it leaves 401, the 400 newest earlier entries and then the
\* new one; made at fewer than 500 it adds exactly one.
C11_LogBounded ==
    [][ LET before == state.execution_log
            after  == state'.execution_log
        IN  /\ Len(after) <= 500
            /\ Len(before) = 500 =>
                  /\ Len(after) = 401
                  /\ SubSeq(after, 1, 400) = SubSeq(before, 101, 500)
                  /\ after[401].timestamp = Len(appended) + 1
            /\ Len(before) < 500 =>
                  /\ Len(after) = Len(before) + 1
                  /\ SubSeq(after, 1, Len(before)) = before ]_vars

C11_Witness ==
    /\ Len(appended) = 501
    /\ Len(state.execution_log) = 401

\* C17: after any sequence of log_event calls the log is a contiguous suffix
\* of all the entries ever appended, in append order.
C17_LogIsSuffix ==
    LET log == state.execution_log
        n   == Len(appended)
    IN  /\ Len(log) <= n
        /\ log = SubSeq(appended, n - Len(log) + 1, n)

C17_Witness ==
    /\ Len(appended) = 601
    /\ Len(state.execution_log) = 401
    /\ state.execution_log[1].timestamp = 201

\* C12 as claimed: every agent call returns a typed result and raises
\* nothing: the plan is a list of steps with a complexity, an executor result
\* is success or failed, a failed one being {failed, the error description,
\* 0.0}, and every validator call returns a verdict.
C12_AsClaimed ==
    /\ Planned => complexity \in {"medium", "high"}
    /\ \A k \in 1..Len(execHist) :
           /\ execHist[k].status \in {"success", "failed"}
           /\ execHist[k].status = "failed" =>
                 /\ execHist[k].output = ErrorText
                 /\ execHist[k].confidence = 0
    /\ \A c \in 1..Len(valCalls) : valCalls[c].verdict \in {"valid", "invalid"}

\* The (type, node, role) of a dict that stream_workflow yields: a key it
\* lacks reads as what emit gives it by default.
StreamShape(d) == <<d.type, Get(d, "node", None), Get(d, "role", "info")>>
StreamShapes(ds) == [k \in 1..Len(ds) |-> StreamShape(ds[k])]

\* C14 as claimed, for the runs in which execute_workflow processes every
\* step, its callback raises nothing and the synthesis call succeeds: on the
\* same plan, the same executor results and the same synthesis outcome,
\* stream_workflow yields events of the same (type, node, role), in the same
\* order, as execute_workflow emits.
C14_AsClaimed ==
    (Terminal /\ synthOutcome = "ok" /\ cbRaises = 0) =>
        StreamShapes(StreamEvents(steps, execHist, TRUE)) = Shapes(events)

\* The loop indexes whose executor result was success.
SucceededSteps == { k \in 1..Len(execHist) : execHist[k].status = "success" }

\* The last event of loop index k.
LastEventOfStep(k) ==
    events[CHOOSE j \in EventsOfStep(k) : \A l \in EventsOfStep(k) : l <= j]

\* C15: once the synthesis call is issued, its input holds one section
\* (heading and output) for exactly the steps whose executor result was
\* success, in plan order and each once, whatever the validator's verdict on
\* them; the verdict shows only in the role of the step's log event, success
\* for valid and warning for invalid.
C15_SynthesisInput ==
    synthOutcome # "none" =>
        /\ Len(reportSteps) = Len(synthInput)
        /\ \A j \in 1..Len(synthInput) :
              /\ reportSteps[j] \in SucceededSteps
              /\ j > 1 => reportSteps[j - 1] < reportSteps[j]
              /\ synthInput[j] = [heading |-> steps[reportSteps[j]],
                                  output |-> execHist[reportSteps[j]].output]
        /\ \A k \in SucceededSteps :
              /\ \E j \in 1..Len(synthInput) : reportSteps[j] = k
              /\ VerdictOf(k) \in {"valid", "invalid"}
              /\ VerdictOf(k) = "valid" => IsLog(LastEventOfStep(k), "success")
              /\ VerdictOf(k) = "invalid" => IsLog(LastEventOfStep(k), "warning")

\* The synthesis call is issued after a plan with a step that failed, a
\* step judged valid and a step judged invalid.
C15_Witness ==
    /\ synthOutcome = "ok"
    /\ Len(synthInput) = 2
    /\ \E k \in 1..Len(execHist) : execHist[k].status = "failed"
    /\ \E k \in SucceededSteps : VerdictOf(k) = "valid"
    /\ \E k \in SucceededSteps : VerdictOf(k) = "invalid"

\* The positions in calls of the calls made by one agent.
CallsBy(agent) == { c \in 1..Len(calls) : calls[c].agent = agent }

\* The order of the calls, whatever their number: the planner's call comes
\* first and once, the executor's calls follow it, one per step from step 1
\* on with no step skipped or repeated, and the synthesis call comes last
\* and once, after the executor was called on every step of the plan.
CallsInOrder ==
    /\ \A c \in CallsBy("planner") : c = 1
    /\ calls # <<>> => calls[1].agent = "planner"
    /\ \A c \in CallsBy("executor") :
          calls[c].step = c - 1 /\ calls[c].step <= Len(steps)
    /\ \A c \in CallsBy("synthesis") : c = Len(calls) /\ c = Len(steps) + 2
    /\ synthOutcome # "none" => LoopDone

\* C16 as claimed: in every run the planner is invoked exactly once, then
\* the executor at most once per step in plan order, once per step when no
\* critical failure occurs, and the synthesis call at most once and only
\* after every step has been processed.
C16_AsClaimed ==
    Terminal =>
        /\ Cardinality(CallsBy("planner")) = 1
        /\ CallsInOrder
        /\ NumCriticalLogs = 0 => Cardinality(CallsBy("executor")) = Len(steps)

\* C16: the calls are made in a fixed order and none is re-issued.  The
\* planner is invoked at most once, and once in every run that gets as far
\* as the planning call: a run makes no call at all only when the callback
\* raised before it.  The executor is invoked at most once per step, in plan
\* order, and once on every step in a run with no critical failure, which
\* also issues the one synthesis call.
C16_CallOrder ==
    /\ CallsInOrder
    /\ Planned => Cardinality(CallsBy("planner")) = 1
    /\ (Terminal /\ calls = <<>>) => (cbRaises >= 1 /\ Len(events) <= 3)
    /\ (Terminal /\ NumCriticalLogs = 0) =>
          /\ Cardinality(CallsBy("executor")) = Len(steps)
          /\ Cardinality(CallsBy("synthesis")) = 1

\* A run over three steps, one of them with a failed executor call, has
\* made its five calls and returned.
C16_Witness ==
    /\ pc = "returned"
    /\ NumCriticalLogs = 0
    /\ Len(steps) = 3
    /\ Len(calls) = 5
    /\ \E k \in 1..Len(execHist) : execHist[k].status = "failed"

\* C18 as claimed: the payload the callback receives with a finish event
\* has a field report, and its value is the text the synthesis call
\* returned.
C18_AsClaimed ==
    \A j \in 1..Len(events) :
        IsFinish(events[j]) =>
            /\ "report" \in DOMAIN events[j].payload
            /\ events[j].payload.report = "final_response.text"

\* C19 as claimed: when the loop has processed k steps of the plan,
\* steps_completed holds those k step descriptions in plan order, and in a
\* run that reaches the synthesis it holds every step of the plan.
C19_AsClaimed ==
    /\ (Planned /\ pc = "loop") => state.steps_completed = SubSeq(steps, 1, i - 1)
    /\ synthOutcome # "none" => state.steps_completed = steps

\* C20 as claimed: a run emits at most one finish event, a finish event is
\* the last event the callback receives, no run emits both a finish event
\* and a critical-failure log event, and the final status is Completed
\* exactly when a finish event was emitted.
C20_AsClaimed ==
    /\ NumFinish <= 1
    /\ \A j \in 1..Len(events) : IsFinish(events[j]) => j = Len(events)
    /\ ~(NumFinish >= 1 /\ NumCriticalLogs >= 1)
    /\ Terminal => (state.status = "completed" <=> NumFinish >= 1)

\* C20: a run emits at most one finish event.  The only event that can
\* follow a finish event is one critical-failure log event, and it follows
\* only when the callback raised; a run whose callback raises on no event
\* never emits both.  The final status is Completed exactly when a finish
\* event was emitted and no critical-failure log event was.
C20_FinishOrFailure ==
    /\ NumFinish <= 1
    /\ \A j \in 1..Len(events) :
          IsFinish(events[j]) =>
              \/ j = Len(events)
              \/ /\ j = Len(events) - 1
                 /\ IsCriticalLog(events[j + 1])
                 /\ cbRaises >= 1
    /\ cbRaises = 0 => ~(NumFinish >= 1 /\ NumCriticalLogs >= 1)
    /\ Terminal =>
          (state.status = "completed" <=> (NumFinish = 1 /\ NumCriticalLogs = 0))

\* The callback raised on the finish event of a run over two steps: the
\* critical-failure log event followed it and the run ended Failed.
C20_Witness ==
    /\ pc = "returned"
    /\ Len(steps) = 2
    /\ NumFinish = 1
    /\ IsCriticalLog(events[Len(events)])
    /\ state.status = "failed"

====
